---- MODULE Spec2Model ----
(***************************************************************************)
(* A model of useStyleTransition.js (react-strict-dom, native): the hook   *)
(* that turns CSS-like transition directives of a style into an Animated   *)
(* sequence.  The hook's state cells (useState/useRef), its two effects    *)
(* and the render body are modelled as one state machine driven by the     *)
(* host's mount / update / commit / unmount cycle.                         *)
(***************************************************************************)
EXTENDS Integers, Sequences, FiniteSets, TLC

(***************************************************************************)
(* Bounds of the model.                                                    *)
(***************************************************************************)
\* number of style updates after mount
MaxUpdates == 2
\* resolution of the progress clock: progress runs 0..Ticks (Ticks = progress 1)
Ticks == 2

(***************************************************************************)
(* JavaScript values.  A value is a record whose field names its kind:     *)
(* undefined, null, a number (NaN apart, it is no numeral), a string, or   *)
(* an array with its identity and its entries.  A plain object (a style,   *)
(* an entry of a transform list) is a function from its keys to values.    *)
(***************************************************************************)
Undefined == [undefined |-> TRUE]
Null == [null |-> TRUE]
Num(x) == [number |-> x]
NaN == [nan |-> TRUE]
Str(x) == [string |-> x]
Arr(i, entries) == [array |-> i, ops |-> entries]

\* typeof
TypeOf(v) ==
  IF "undefined" \in DOMAIN v THEN "undefined"
  ELSE IF "number" \in DOMAIN v \/ "nan" \in DOMAIN v THEN "number"
  ELSE IF "string" \in DOMAIN v THEN "string"
  ELSE "object"
IsNaN(v) == "nan" \in DOMAIN v
\* x != null
NotNull(v) == v # Undefined /\ v # Null
IsArray(v) == "array" \in DOMAIN v

\* a === b: primitives by value (NaN equals nothing), arrays by identity
StrictEq(a, b) ==
  IF TypeOf(a) # TypeOf(b) THEN FALSE
  ELSE IF TypeOf(a) = "number" THEN ~IsNaN(a) /\ ~IsNaN(b) /\ a.number = b.number
  ELSE IF TypeOf(a) = "string" THEN a.string = b.string
  ELSE IF IsArray(a) /\ IsArray(b) THEN a.array = b.array
  ELSE (a = Null /\ b = Null) \/ TypeOf(a) = "undefined"

\* lines 31-33
isNumber(v) == TypeOf(v) = "number"
\* lines 35-37
isString(v) == TypeOf(v) = "string"

\* object[key]: undefined for a key the object does not have
Get(object, key) == IF key \in DOMAIN object THEN object[key] ELSE Undefined
\* an object literal: the keys given the value undefined are left out
Object(m) == [k \in {x \in DOMAIN m : m[x] # Undefined} |-> m[k]]
EmptyObject == [k \in {} |-> Undefined]

(***************************************************************************)
(* Text.  A string literal is read as its sequence of lexical tokens, so   *)
(* that includes / split / trim act on the text instead of on a name.      *)
(***************************************************************************)
Tokens(s) ==
  CASE s = "opacity, width" -> <<"opacity", ",", " ", "width">>
    [] s = "opacity, transform" -> <<"opacity", ",", " ", "transform">>
    [] s = "cubic-bezier(0.42, 0, 1, 1)" ->
         <<"cubic-bezier", "(", "0.42", ",", " ", "0", ",", " ", "1", ",", " ", "1", ")">>
    [] s = "" -> <<>>
    [] OTHER -> <<s>>

\* String.prototype.includes for a one-token needle
Includes(toks, needle) == \E i \in 1..Len(toks) : toks[i] = needle

RECURSIVE SplitOn(_, _)
\* String.prototype.split on a one-token separator: the list of pieces
SplitOn(toks, sep) ==
  IF \A i \in 1..Len(toks) : toks[i] # sep THEN <<toks>>
  ELSE LET k == CHOOSE i \in 1..Len(toks) :
                  toks[i] = sep /\ \A j \in 1..(i - 1) : toks[j] # sep
       IN <<SubSeq(toks, 1, k - 1)>> \o SplitOn(SubSeq(toks, k + 1, Len(toks)), sep)

RECURSIVE Trim(_)
\* String.prototype.trim
Trim(toks) ==
  IF toks = <<>> THEN toks
  ELSE IF Head(toks) = " " THEN Trim(Tail(toks))
  ELSE IF toks[Len(toks)] = " " THEN Trim(SubSeq(toks, 1, Len(toks) - 1))
  ELSE toks

\* the text of a piece that is one name; no style of the model has a key that
\* is the empty text or a text of several tokens
Join(toks) == IF Len(toks) = 1 THEN toks[1] ELSE ""

(***************************************************************************)
(* Transforms.  An entry of a transform list is an object with a field for *)
(* each transform kind it carries.                                         *)
(***************************************************************************)
\* the kinds in the order in which the code tests them
Kinds ==
  <<"perspective", "rotate", "rotateX", "rotateY", "rotateZ", "scale", "scaleX",
    "scaleY", "scaleZ", "skewX", "skewY", "translateX", "translateY">>
KindSet == {Kinds[i] : i \in 1..Len(Kinds)}

Op(kind, mag) == kind :> mag
Op2(k1, m1, k2, m2) == (k1 :> m1) @@ (k2 :> m2)

\* lines 90-119
transformsHaveSameLengthTypesAndOrder(transformsA, transformsB) ==
  IF Len(transformsA) # Len(transformsB) THEN FALSE
  ELSE \A i \in 1..Len(transformsA) :
         ~ \E k \in KindSet :
             NotNull(Get(transformsA[i], k)) /\ ~NotNull(Get(transformsB[i], k))

\* lines 121-150
transformListsAreEqual(transformsA, transformsB) ==
  IF ~transformsHaveSameLengthTypesAndOrder(transformsA, transformsB) THEN FALSE
  ELSE \A i \in 1..Len(transformsA) :
         ~ \E k \in KindSet :
             NotNull(Get(transformsA[i], k))
               /\ ~StrictEq(Get(transformsA[i], k), Get(transformsB[i], k))

(***************************************************************************)
(* Styles.                                                                 *)
(***************************************************************************)
ReservedKeys ==
  {"transitionDelay", "transitionDuration", "transitionProperty",
   "transitionTimingFunction"}
Keys == {"opacity", "transform", "width"} \cup ReservedKeys

\* line 201
DefaultDelay == 0
\* line 202
DefaultDuration == 16

\* getTransitionProperties without the trim of the names
getTransitionProperties_NoTrim(property) ==
  IF StrictEq(property, Str("all"))
  THEN [isNull |-> FALSE, names |-> <<"opacity", "transform">>]
  ELSE IF TypeOf(property) = "string"
  THEN LET pieces == SplitOn(Tokens(property.string), ",")
       IN [isNull |-> FALSE,
           names |-> [i \in 1..Len(pieces) |-> Join(pieces[i])]]
  ELSE [isNull |-> TRUE, names |-> <<>>]

\* lines 80-88; null is [isNull |-> TRUE]
getTransitionProperties(property) ==
  IF StrictEq(property, Str("all"))
  THEN [isNull |-> FALSE, names |-> <<"opacity", "transform">>]
  ELSE IF TypeOf(property) = "string"
  THEN LET pieces == SplitOn(Tokens(property.string), ",")
       IN [isNull |-> FALSE,
           names |-> [i \in 1..Len(pieces) |-> Join(Trim(pieces[i]))]]
  ELSE [isNull |-> TRUE, names |-> <<>>]

\* lines 207-215: the transitionable subset of the style, or undefined
TransitionStyleOf(style) ==
  LET list == getTransitionProperties(Get(style, "transitionProperty"))
      listed == {list.names[i] : i \in 1..Len(list.names)}
  IN IF list.isNull THEN Undefined
     ELSE [property \in
             {p \in listed : \/ isString(Get(style, p))
                             \/ isNumber(Get(style, p))
                             \/ IsArray(Get(style, p))} |-> style[property]]

\* lines 152-190
transitionStyleHasChanged(next, prev) ==
  IF next = Undefined THEN FALSE
  ELSE IF TypeOf(prev) # TypeOf(next) THEN TRUE
  ELSE \E propKey \in DOMAIN next :
         LET prevValue == Get(prev, propKey)
             nextValue == next[propKey]
         IN \/ TypeOf(prevValue) # TypeOf(nextValue)
            \/ /\ IsArray(prevValue)
               /\ IsArray(nextValue)
               /\ ~transformListsAreEqual(prevValue.ops, nextValue.ops)
            \/ ~StrictEq(prevValue, nextValue)

\* typeof of an entry of a transform list: the entries are objects
TypeOfEntry(entry) == "object"

\* Array.prototype.includes with a string argument (line 53): an element
\* matches only if it is that string
ArrayIncludesText(value, text) ==
  \E i \in 1..Len(value.ops) : TypeOfEntry(value.ops[i]) = "string"

\* lines 39-60
canUseNativeDriver(transitionProperties) ==
  IF transitionProperties = Undefined THEN FALSE
  ELSE \A property \in DOMAIN transitionProperties :
         LET value == transitionProperties[property]
         IN \/ property = "opacity"
            \/ /\ property = "transform"
               /\ IsArray(value)
               /\ ~ArrayIncludesText(value, "skew")

(***************************************************************************)
(* Easing selection.  The result names the curve, or is the TypeError of   *)
(* calling split on undefined.                                             *)
(***************************************************************************)
Curve(name) == [curve |-> name]
Thrown == [throws |-> "TypeError"]
Throws(easing) == "throws" \in DOMAIN easing

NumericTokens == {"0", "0.42", "1"}
\* parseFloat of a trimmed piece
ParseFloat(toks) ==
  IF Len(toks) = 1 /\ toks[1] \in NumericTokens THEN toks[1] ELSE "NaN"

\* the positions at which the text "cubic-bezier(" starts
BezierStarts(toks) ==
  {i \in 1..(Len(toks) - 1) : toks[i] = "cubic-bezier" /\ toks[i + 1] = "("}

\* input.split('cubic-bezier(')[1]: the text between the first and the second
\* occurrence of the separator (defined only when there is an occurrence)
BezierChunk(toks) ==
  LET first == CHOOSE i \in BezierStarts(toks) :
                 \A j \in BezierStarts(toks) : i <= j
      later == {j \in BezierStarts(toks) : j > first + 1}
      last == IF later = {} THEN Len(toks)
              ELSE (CHOOSE j \in later : \A l \in later : j <= l) - 1
  IN SubSeq(toks, first + 2, last)

\* lines 62-78
getEasingFunction(input) ==
  IF StrictEq(input, Str("ease")) THEN Curve("ease")
  ELSE IF StrictEq(input, Str("ease-in")) THEN Curve("in(ease)")
  ELSE IF StrictEq(input, Str("ease-out")) THEN Curve("out(ease)")
  ELSE IF StrictEq(input, Str("ease-in-out")) THEN Curve("inOut(ease)")
  ELSE IF NotNull(input) /\ Includes(Tokens(input.string), "cubic-bezier")
  THEN IF BezierStarts(Tokens(input.string)) = {} THEN Thrown
       ELSE LET chunk == BezierChunk(Tokens(input.string))
                str == SplitOn(chunk, ")")[1]
                pieces == SplitOn(str, ",")
            IN [curve |-> "bezier",
                points |-> [i \in 1..Len(pieces) |-> ParseFloat(Trim(pieces[i]))]]
  ELSE Curve("linear")

\* lines 232-236 and 239-244: the transition metadata of a render
MetadataOf(style) ==
  LET _delay == Get(style, "transitionDelay")
      _duration == Get(style, "transitionDuration")
      _timingFunction == Get(style, "transitionTimingFunction")
  IN [delay |-> IF isNumber(_delay) THEN _delay ELSE Num(DefaultDelay),
      duration |-> IF isNumber(_duration) THEN _duration ELSE Num(DefaultDuration),
      timingFunction |-> IF isString(_timingFunction) THEN _timingFunction
                         ELSE Null,
      shouldUseNativeDriver |-> canUseNativeDriver(TransitionStyleOf(style))]

(***************************************************************************)
(* Coercions of the interpolation code.                                    *)
(***************************************************************************)
\* the decimal text of the numbers the model's styles use
NumText(x) ==
  CASE x = 0 -> "0" [] x = 1 -> "1" [] x = 2 -> "2" [] x = 3 -> "3"
    [] x = 4 -> "4" [] x = 5 -> "5" [] x = 6 -> "6" [] x = 7 -> "7"
    [] x = 8 -> "8" [] x = 9 -> "9" [] x = 10 -> "10"
DecimalTexts == {NumText(x) : x \in 0..10}
TextNum(s) == CHOOSE x \in 0..10 : NumText(x) = s

\* unary plus (lines 298, 362, 421, ...)
ToNumber(v) ==
  IF TypeOf(v) = "number" THEN v
  ELSE IF TypeOf(v) = "string"
  THEN IF v.string = "" THEN Num(0)
       ELSE IF v.string \in DecimalTexts THEN Num(TextNum(v.string))
       ELSE NaN
  ELSE IF IsArray(v) /\ v.ops = <<>> THEN Num(0)
  ELSE NaN

\* String(x) (line 304)
StringOf(v) ==
  IF TypeOf(v) = "string" THEN v
  ELSE IF TypeOf(v) = "number"
  THEN IF IsNaN(v) THEN Str("NaN") ELSE Str(NumText(v.number))
  ELSE IF TypeOf(v) = "undefined" THEN Str("undefined")
  ELSE IF Len(v.ops) = 0 THEN Str("")
  ELSE IF Len(v.ops) = 1 THEN Str("[object Object]")
  ELSE Str("[object Object],[object Object]")

(***************************************************************************)
(* The returned style.  The value of a key is a literal value, a value     *)
(* bound to the animated value (interpolate with an output range) or the   *)
(* new array of transform entries with bound fields.                       *)
(***************************************************************************)
\* animatedValue.interpolate({inputRange: [0, 1], outputRange: [a, b]})
Interpolate(a, b) == [outputRange |-> <<a, b>>]
IsInterpolation(v) == "outputRange" \in DOMAIN v
\* the array animatedTransforms (line 352), a new object
AnimatedList(entries) == Arr(0, entries)

\* the kinds whose start magnitude is coerced with unary plus
CoercedKinds ==
  {"perspective", "scale", "scaleX", "scaleY", "scaleZ", "translateX", "translateY"}
\* the kinds tested on the new entry alone (lines 357, 417, 426, 435, 444)
UnguardedKinds == {"perspective", "scale", "scaleX", "scaleY", "scaleZ"}

\* does the branch of kind Kinds[j] take the entry (the if conditions of
\* lines 357-500)
BranchTaken(j, singleTransform, singleRefTransform) ==
  /\ NotNull(Get(singleTransform, Kinds[j]))
  /\ Kinds[j] \in UnguardedKinds \/ NotNull(Get(singleRefTransform, Kinds[j]))

\* lines 353-501 for one index: the pushed entry, or nothing
AnimateEntry(singleTransform, singleRefTransform) ==
  LET taken == {j \in 1..Len(Kinds) :
                  BranchTaken(j, singleTransform, singleRefTransform)}
  IN IF taken = {} THEN <<>>
     ELSE LET j == CHOOSE x \in taken : \A y \in taken : x <= y
              kind == Kinds[j]
          IN <<Op(kind,
                  Interpolate(IF kind \in CoercedKinds
                              THEN ToNumber(Get(singleRefTransform, kind))
                              ELSE Get(singleRefTransform, kind),
                              singleTransform[kind]))>>

RECURSIVE AnimateTransforms(_, _, _)
\* lines 352-502: the entries pushed for the indexes i..length
AnimateTransforms(i, transforms, refTransforms) ==
  IF i > Len(transforms) THEN <<>>
  ELSE AnimateEntry(transforms[i], refTransforms[i])
         \o AnimateTransforms(i + 1, transforms, refTransforms)

\* TransformOutput returning the (empty) animated list on a length mismatch
TransformOutput_NoVerbatim(value, startValue) ==
  IF ~IsArray(startValue) THEN value
  ELSE IF Len(value.ops) # Len(startValue.ops) THEN AnimatedList(<<>>)
  ELSE IF \E i \in 1..Len(value.ops) : NotNull(Get(value.ops[i], "matrix"))
  THEN value
  ELSE IF ~transformsHaveSameLengthTypesAndOrder(value.ops, startValue.ops)
  THEN value
  ELSE AnimatedList(AnimateTransforms(1, value.ops, startValue.ops))

\* lines 307-504: the transform branch of the reducer
TransformOutput(value, startValue) ==
  IF ~IsArray(startValue) \/ Len(value.ops) # Len(startValue.ops)
  THEN value
  ELSE IF \E i \in 1..Len(value.ops) : NotNull(Get(value.ops[i], "matrix"))
  THEN value
  ELSE IF ~transformsHaveSameLengthTypesAndOrder(value.ops, startValue.ops)
  THEN value
  ELSE AnimatedList(AnimateTransforms(1, value.ops, startValue.ops))

\* StartValue that forgets previousStyle
StartValue_Current(prevStyle, property, value) == value

\* line 291: previousStyle?.[property] ?? value
StartValue(prevStyle, property, value) ==
  IF NotNull(prevStyle) /\ NotNull(Get(prevStyle, property))
  THEN prevStyle[property]
  ELSE value

\* lines 290-507: what the reducer assigns to animatedStyle[property];
\* undefined when it assigns nothing
AnimatedProperty(property, value, prevStyle, animValue) ==
  LET startValue == StartValue(prevStyle, property, value)
  IN IF animValue = 0 \/ StrictEq(startValue, value) THEN value
     ELSE IF TypeOf(value) = "number"
     THEN Interpolate(ToNumber(startValue), value)
     ELSE IF TypeOf(value) = "string"
     THEN Interpolate(StringOf(startValue), value)
     ELSE IF property = "transform" /\ IsArray(value)
     THEN TransformOutput(value, startValue)
     ELSE Undefined

\* lines 193-199: the rest of the destructuring
StyleWithAnimations(style) == [k \in DOMAIN style \ ReservedKeys |-> style[k]]

\* lines 288-507
OutputAnimatedStyle(transitionStyle, prevStyle, animValue) ==
  Object([property \in DOMAIN transitionStyle |->
            AnimatedProperty(property, transitionStyle[property], prevStyle,
                             animValue)])

\* lines 284-511: the style returned by a render that saw no change
ReturnedStyle(style, prevStyle, animValue) ==
  LET transitionStyle == TransitionStyleOf(style)
  IN IF transitionStyle = Undefined THEN style
     ELSE OutputAnimatedStyle(transitionStyle, prevStyle, animValue)
            @@ StyleWithAnimations(style)

(***************************************************************************)
(* The input styles of the model.  Each family is the set of styles one    *)
(* call site can pass; an update passes a style of the family of the       *)
(* current one.                                                            *)
(***************************************************************************)
Rotate0 == Op("rotate", Str("0deg"))
Rotate90 == Op("rotate", Str("90deg"))
Scale2 == Op("scale", Num(2))
SkewX10 == Op("skewX", Str("10deg"))

\* opacity as a number (0, 10 and NaN), with and without transitionProperty
OpacityStyles ==
  {Object([opacity |-> o, width |-> Num(5), transitionProperty |-> tp,
           transitionDuration |-> Num(300)]) :
     o \in {Num(0), Num(10), NaN}, tp \in {Str("opacity"), Undefined}}

\* width as a number and as a string, next to an opacity
WidthStyles ==
  {[opacity |-> Num(0), width |-> w, transitionProperty |-> Str("opacity, width")] :
     w \in {Num(5), Num(7), Str("50%"), Str("7")}}

\* transform lists: two list objects of equal content, a compatible target,
\* a longer list and a list with a skew
TransformStyles ==
  {[transform |-> tr, transitionProperty |-> Str("all")] :
     tr \in {Arr(1, <<Rotate0>>), Arr(2, <<Rotate0>>), Arr(3, <<Rotate90>>),
             Arr(4, <<Rotate90, Scale2>>), Arr(5, <<SkewX10>>)}}

\* timing functions
TimingStyles ==
  {Object([opacity |-> o, transitionProperty |-> Str("opacity"),
           transitionTimingFunction |-> tf]) :
     o \in {Num(0), Num(10)},
     tf \in {Undefined, Str("ease"), Str("steps"), Str("cubic-bezier"),
             Str("cubic-bezier(0.42, 0, 1, 1)")}}

\* raw styles for the first render: every reserved key absent, of its type
\* and of another type, next to values of every kind
RawStyles ==
  {Object([opacity |-> o, width |-> w, transform |-> tr, transitionDelay |-> d,
           transitionDuration |-> u, transitionTimingFunction |-> tf,
           transitionProperty |-> tp]) :
     o \in {Undefined, Null, Num(0)}, w \in {Num(5), Str("50%")},
     tr \in {Undefined, Arr(1, <<Rotate0>>)},
     d \in {Undefined, Num(100), Str("100ms")},
     u \in {Undefined, Num(300), Str("1s")},
     tf \in {Undefined, Str("ease"), Num(1)},
     tp \in {Undefined, Num(1), Str("all"), Str("opacity, width"), Str("width"),
             Str("")}}

\* the directives of delay, duration and timing function, absent and given
MetadataStyles ==
  {Object([opacity |-> o, transitionProperty |-> Str("opacity"),
           transitionDelay |-> m[1], transitionDuration |-> m[2],
           transitionTimingFunction |-> m[3]]) :
     o \in {Num(0), Num(10)},
     m \in {<<Undefined, Num(300), Undefined>>, <<Num(100), Num(500), Str("ease")>>}}

\* transform lists with entries of two kinds, of the numeric kinds, of
\* translations with units, of two entries and with a matrix
StackStyles ==
  {[transform |-> tr, transitionProperty |-> Str("transform")] :
     tr \in {Arr(6, <<Op2("rotate", Str("0deg"), "scale", Num(1))>>),
             Arr(7, <<Op2("rotate", Str("90deg"), "scale", Num(2))>>),
             Arr(8, <<Scale2>>),
             Arr(9, <<Op("scale", Str("1"))>>),
             Arr(10, <<Op("translateX", Str("10px"))>>),
             Arr(11, <<Op("translateX", Str("20px"))>>),
             Arr(12, <<Rotate0, Op("translateY", Num(1))>>),
             Arr(13, <<Rotate90, Op("translateY", Num(2))>>),
             Arr(14, <<Op("matrix", Str("1,0,0,1,0,0"))>>)}}

Families ==
  {OpacityStyles, WidthStyles, TransformStyles, TimingStyles, MetadataStyles,
   StackStyles}
Styles == UNION Families
Related(style) == UNION {F \in Families : style \in F}

(***************************************************************************)
(* State.                                                                  *)
(***************************************************************************)
VARIABLES
  pc,                    \* where the host is in the component's life cycle
  props,                 \* the style argument of the current render
  currentStyle,          \* useState, line 217
  previousStyle,         \* useState, line 220
  animatedValue,         \* useState, line 224: an Animated.Value, 0 = undefined
  transitionMetadataRef, \* useRef, line 231
  effectDeps,            \* [animatedValue] of the last run of the trigger effect
  cleanupOf,             \* the animation the registered cleanup stops, 0 = none
  animations,            \* per Animated.Value, the sequence animation made for it
  output,                \* the style returned by the last committed render
  error,                 \* the error the component raised, "none" if none
  updates                \* the number of updates so far

vars ==
  <<pc, props, currentStyle, previousStyle, animatedValue, transitionMetadataRef,
    effectDeps, cleanupOf, animations, output, error, updates>>

\* an Animated.Value(0) for which no animation was made yet
NoAnimation == [started |-> FALSE, stopCalls |-> 0, progress |-> 0]
\* Animated.sequence([Animated.delay(delay), Animated.timing(value, config)]),
\* started (lines 259-268)
Started(delay, config) ==
  [started |-> TRUE, stopCalls |-> 0, progress |-> 0, delay |-> delay,
   config |-> config]

Init ==
  /\ pc = "unmounted"
  /\ props = EmptyObject
  /\ currentStyle = Undefined
  /\ previousStyle = Undefined
  /\ animatedValue = 0
  /\ transitionMetadataRef = MetadataOf(EmptyObject)
  /\ effectDeps = 0
  /\ cleanupOf = 0
  /\ animations = <<>>
  /\ output = EmptyObject
  /\ error = "none"
  /\ updates = 0

(***************************************************************************)
(* The render body, lines 192-511, under the state cells cs (currentStyle),*)
(* ps (previousStyle) and av (animatedValue) of this render.               *)
(***************************************************************************)
\* lines 276-282: the state setters of a detected change
ChangeDetected(style, cs) ==
  /\ currentStyle' = style
  /\ previousStyle' = cs
  /\ animatedValue' = Len(animations) + 1
  /\ animations' = Append(animations, NoAnimation)
  /\ pc' = "rerender"
  /\ UNCHANGED output

Render(style, cs, ps, av) ==
  IF transitionStyleHasChanged(TransitionStyleOf(style), cs)
  THEN ChangeDetected(style, cs)
  ELSE /\ currentStyle' = cs
       /\ previousStyle' = ps
       /\ animatedValue' = av
       /\ output' = ReturnedStyle(style, ps, av)
       /\ pc' = "commit"
       /\ UNCHANGED animations

\* the first render: the state cells take their initial values
Mount(style) ==
  /\ pc = "unmounted"
  /\ props' = style
  /\ transitionMetadataRef' = MetadataOf(style)
  /\ Render(style, style, Undefined, 0)
  /\ UNCHANGED <<effectDeps, cleanupOf, error, updates>>

\* the host renders the component with a new style
Update(style) ==
  /\ pc = "idle"
  /\ updates < MaxUpdates
  /\ props' = style
  /\ updates' = updates + 1
  /\ Render(style, currentStyle, previousStyle, animatedValue)
  /\ UNCHANGED <<transitionMetadataRef, effectDeps, cleanupOf, error>>

\* the render that follows the state setters of a discarded render
ReRender ==
  /\ pc = "rerender"
  /\ ~transitionStyleHasChanged(TransitionStyleOf(props), currentStyle)
  /\ Render(props, currentStyle, previousStyle, animatedValue)
  /\ UNCHANGED <<props, transitionMetadataRef, effectDeps, cleanupOf, error, updates>>

\* a render that sets state on every pass: the host gives up with
\* "Too many re-renders"
ReRenderLoops ==
  /\ pc = "rerender"
  /\ transitionStyleHasChanged(TransitionStyleOf(props), currentStyle)
  /\ pc' = "crashed"
  /\ error' = "Too many re-renders"
  /\ UNCHANGED <<props, currentStyle, previousStyle, animatedValue,
                 transitionMetadataRef, effectDeps, cleanupOf, animations, output,
                 updates>>

(***************************************************************************)
(* The commit: the cleanup of an effect whose dependencies changed, then   *)
(* the effects in the order of their declaration.                          *)
(***************************************************************************)
\* animation.stop() (line 271)
Stop(id) == [animations EXCEPT ![id].stopCalls = @ + 1]

\* DestroyTriggerEffect as the cleanup of an effect without a dependency
\* array: it runs in every commit
DestroyTriggerEffect_EveryCommit ==
  /\ pc = "commit"
  /\ IF cleanupOf # 0
     THEN animations' = Stop(cleanupOf) /\ cleanupOf' = 0
     ELSE UNCHANGED <<animations, cleanupOf>>
  /\ pc' = "sync"
  /\ UNCHANGED <<props, currentStyle, previousStyle, animatedValue,
                 transitionMetadataRef, effectDeps, output, error, updates>>

\* DestroyTriggerEffect with a cleanup that forgets animation.stop()
DestroyTriggerEffect_NoStop ==
  /\ pc = "commit"
  /\ IF effectDeps # animatedValue /\ cleanupOf # 0
     THEN cleanupOf' = 0 /\ UNCHANGED animations
     ELSE UNCHANGED <<animations, cleanupOf>>
  /\ pc' = "sync"
  /\ UNCHANGED <<props, currentStyle, previousStyle, animatedValue,
                 transitionMetadataRef, effectDeps, output, error, updates>>

\* lines 270-272, run because [animatedValue] changed
DestroyTriggerEffect ==
  /\ pc = "commit"
  /\ IF effectDeps # animatedValue /\ cleanupOf # 0
     THEN animations' = Stop(cleanupOf) /\ cleanupOf' = 0
     ELSE UNCHANGED <<animations, cleanupOf>>
  /\ pc' = "sync"
  /\ UNCHANGED <<props, currentStyle, previousStyle, animatedValue,
                 transitionMetadataRef, effectDeps, output, error, updates>>

\* SyncMetadata that leaves the ref as it is
SyncMetadata_Skipped ==
  /\ pc = "sync"
  /\ pc' = "effect"
  /\ UNCHANGED <<props, currentStyle, previousStyle, animatedValue,
                 transitionMetadataRef, effectDeps, cleanupOf, animations, output,
                 error, updates>>

\* lines 238-250.  The effect is skipped only when no dependency changed, and
\* then the ref already holds these values.
SyncMetadata ==
  /\ pc = "sync"
  /\ transitionMetadataRef' = MetadataOf(props)
  /\ pc' = "effect"
  /\ UNCHANGED <<props, currentStyle, previousStyle, animatedValue, effectDeps,
                 cleanupOf, animations, output, error, updates>>

\* lines 254-274 when [animatedValue] is unchanged, or on mount, when
\* animatedValue is undefined
SkipTriggerEffect ==
  /\ pc = "effect"
  /\ effectDeps = animatedValue
  /\ pc' = "idle"
  /\ UNCHANGED <<props, currentStyle, previousStyle, animatedValue,
                 transitionMetadataRef, effectDeps, cleanupOf, animations, output,
                 error, updates>>

\* lines 255-268: the sequence animation is made and started
StartAnimation ==
  /\ pc = "effect"
  /\ effectDeps # animatedValue
  /\ LET m == transitionMetadataRef
         easing == getEasingFunction(m.timingFunction)
     IN /\ ~Throws(easing)
        /\ animations' =
             [animations EXCEPT ![animatedValue] =
                Started(m.delay,
                        [toValue |-> 1, duration |-> m.duration, easing |-> easing,
                         useNativeDriver |-> m.shouldUseNativeDriver])]
  /\ effectDeps' = animatedValue
  /\ cleanupOf' = animatedValue
  /\ pc' = "idle"
  /\ UNCHANGED <<props, currentStyle, previousStyle, animatedValue,
                 transitionMetadataRef, output, error, updates>>

\* line 264 raises: getEasingFunction calls split on undefined
EffectThrows ==
  /\ pc = "effect"
  /\ effectDeps # animatedValue
  /\ Throws(getEasingFunction(transitionMetadataRef.timingFunction))
  /\ pc' = "crashed"
  /\ error' = "TypeError"
  /\ UNCHANGED <<props, currentStyle, previousStyle, animatedValue,
                 transitionMetadataRef, effectDeps, cleanupOf, animations, output,
                 updates>>

\* the progress clock of the running animation advances
Tick ==
  /\ pc = "idle"
  /\ cleanupOf # 0
  /\ animations[cleanupOf].progress < Ticks
  /\ animations' = [animations EXCEPT ![cleanupOf].progress = @ + 1]
  /\ UNCHANGED <<pc, props, currentStyle, previousStyle, animatedValue,
                 transitionMetadataRef, effectDeps, cleanupOf, output, error,
                 updates>>

\* Teardown of an effect that returns no cleanup
Teardown_NoCleanup ==
  /\ pc \in {"idle", "crashed"}
  /\ cleanupOf' = 0
  /\ pc' = "done"
  /\ UNCHANGED <<props, currentStyle, previousStyle, animatedValue,
                 transitionMetadataRef, effectDeps, animations, output, error,
                 updates>>

\* the component unmounts (also after an error): the registered cleanup runs
Teardown ==
  /\ pc \in {"idle", "crashed"}
  /\ IF cleanupOf # 0
     THEN animations' = Stop(cleanupOf) /\ cleanupOf' = 0
     ELSE UNCHANGED <<animations, cleanupOf>>
  /\ pc' = "done"
  /\ UNCHANGED <<props, currentStyle, previousStyle, animatedValue,
                 transitionMetadataRef, effectDeps, output, error, updates>>

Next ==
  \/ \E style \in Styles : Mount(style)
  \/ \E style \in Related(props) : Update(style)
  \/ ReRender
  \/ ReRenderLoops
  \/ DestroyTriggerEffect
  \/ SyncMetadata
  \/ SkipTriggerEffect
  \/ StartAnimation
  \/ EffectThrows
  \/ Tick
  \/ Teardown

Spec == Init /\ [][Next]_vars

\* the first render and its commit, for every raw style
FirstCycle ==
  \/ \E style \in RawStyles : Mount(style)
  \/ DestroyTriggerEffect
  \/ SyncMetadata
  \/ SkipTriggerEffect

MountSpec == Init /\ [][FirstCycle]_vars

TypeOK ==
  /\ pc \in {"unmounted", "rerender", "commit", "sync", "effect", "idle",
             "crashed", "done"}
  /\ animatedValue \in 0..Len(animations)
  /\ cleanupOf \in 0..Len(animations)
  /\ updates \in 0..MaxUpdates

(***************************************************************************)
(* Properties.                                                             *)
(***************************************************************************)
AnimationIds == 1..Len(animations)
\* the animations that were started and have not received stop()
Unstopped ==
  {a \in AnimationIds : animations[a].started /\ animations[a].stopCalls = 0}
\* the progress clock of animation a is between 0 and 1
MidFlight(a) == animations[a].progress \in 1..(Ticks - 1)
Completed(a) == animations[a].progress = Ticks
\* the keys of the transitionable subset of a style
TransitionKeys(style) ==
  IF TransitionStyleOf(style) = Undefined THEN {} ELSE DOMAIN TransitionStyleOf(style)

\* C1: at any time at most one started animation has not been stopped; a
\* replacement run is therefore started only after stop() of the run before it.
C1_OneClockRunning == Cardinality(Unstopped) <= 1

\* a run was replaced mid-flight: the old animation is stopped, the new one runs
C1_Witness ==
  \E a, b \in AnimationIds :
    /\ a < b
    /\ animations[a].started /\ animations[a].stopCalls = 1 /\ MidFlight(a)
    /\ animations[b].started /\ animations[b].stopCalls = 0

BoundNumber(k) ==
  /\ IsInterpolation(Get(output, k))
  /\ \A i \in 1..2 :
       /\ TypeOf(output[k].outputRange[i]) = "number"
       /\ ~IsNaN(output[k].outputRange[i])

\* the value the renderer shows for key k: a bound number follows the clock of
\* the current animated value linearly, anything else is the literal
RenderedValue(k) ==
  IF BoundNumber(k) /\ animatedValue # 0
  THEN LET from == output[k].outputRange[1].number
           to == output[k].outputRange[2].number
       IN Num(from + ((to - from) * animations[animatedValue].progress) \div Ticks)
  ELSE Get(output, k)

\* C3 (as claimed): when an update changes a transitioning numeric property
\* while the run's clock is mid-flight, the new run's start value for that
\* property is the value rendered at that moment.
C3_FromIsMidFlightValue ==
  [][\A k \in {"opacity", "width"} :
       (/\ pc = "idle" /\ pc' = "rerender"
        /\ cleanupOf # 0 /\ cleanupOf = animatedValue /\ MidFlight(cleanupOf)
        /\ BoundNumber(k)
        /\ ~StrictEq(Get(props', k), Get(props, k)))
       => StrictEq(StartValue(previousStyle', k, Get(props', k)), RenderedValue(k))]_vars

\* two values with the same kind and content, whether or not the same object
SameContent(a, b) ==
  IF IsArray(a) /\ IsArray(b) THEN a.ops = b.ops ELSE a = b /\ ~IsNaN(a)

\* C4 (as claimed): once a run has completed, an update whose transitioning
\* properties carry the same values as the run's target is no change: no new
\* animated value is made.
C4_SameTargetNoChange ==
  [][(/\ pc = "idle" /\ updates' = updates + 1
      /\ cleanupOf # 0 /\ Completed(cleanupOf)
      /\ TransitionStyleOf(props') # Undefined
      /\ \A k \in TransitionKeys(props') :
           SameContent(props'[k], Get(currentStyle, k)))
     => (pc' = "commit" /\ animatedValue' = animatedValue
           /\ animations' = animations)]_vars

\* the render for props has returned and was not thrown away
Returned == pc \in {"commit", "sync", "effect", "idle"}

\* C5 (as claimed): the returned style has the input's keys minus the four
\* reserved keys, and every property outside the transitionable subset keeps
\* its input value.
C5_OutputShape ==
  Returned =>
    /\ DOMAIN output = DOMAIN props \ ReservedKeys
    /\ \A k \in DOMAIN props \ ReservedKeys :
         k \notin TransitionKeys(props) => Get(output, k) = props[k]

\* every transitioning property of the style is opacity, or a transform list
\* without skewX and skewY
NativeEligible(style) ==
  \A k \in TransitionKeys(style) :
    \/ k = "opacity"
    \/ /\ k = "transform"
       /\ IsArray(style[k])
       /\ \A i \in 1..Len(style[k].ops) :
            /\ ~NotNull(Get(style[k].ops[i], "skewX"))
            /\ ~NotNull(Get(style[k].ops[i], "skewY"))

\* C6 (as claimed): the native-driver flag a run is started with is true iff
\* every transitioning property is opacity or a skew-free transform.
C6_NativeDriverFlag ==
  [][\A a \in AnimationIds :
       (~animations[a].started /\ animations'[a].started)
         => (animations'[a].config.useNativeDriver <=> NativeEligible(props))]_vars

\* C7 (as claimed): a style compared with itself has not changed, so the render
\* that follows a detected change sees no change and the cycle settles.
C7_DifferReflexive ==
  /\ currentStyle # Undefined =>
       ~transitionStyleHasChanged(currentStyle, currentStyle)
  /\ pc = "rerender" =>
       ~transitionStyleHasChanged(TransitionStyleOf(props), currentStyle)
  /\ error # "Too many re-renders"

\* The last detected change replaced a transform list by one of another length.
\* Lines 277-279 set currentStyle, previousStyle and animatedValue together, so
\* animatedValue is the clock made for the change from previousStyle to
\* currentStyle.
LengthChange ==
  /\ previousStyle # Undefined
  /\ IsArray(Get(previousStyle, "transform"))
  /\ IsArray(Get(currentStyle, "transform"))
  /\ Len(previousStyle["transform"].ops) # Len(currentStyle["transform"].ops)
  /\ "transform" \in TransitionKeys(props)
  /\ StrictEq(props["transform"], currentStyle["transform"])

\* C8 (as claimed): after a change of the transform list to another length the
\* lists are incompatible, the output is the new list verbatim, and no clock
\* was made or started for the change.
C8_NoClockForLengthChange ==
  (pc = "idle" /\ LengthChange) =>
    /\ ~transformsHaveSameLengthTypesAndOrder(currentStyle["transform"].ops,
                                              previousStyle["transform"].ops)
    /\ Get(output, "transform") = props["transform"]
    /\ ~animations[animatedValue].started

\* C8 (amended): the lists are incompatible and the output is the new list
\* verbatim, not bound to a clock; the change is nevertheless a detected change,
\* for which an animated value is made and its animation started.
C8_VerbatimOutputClockStarted ==
  (pc = "idle" /\ LengthChange) =>
    /\ ~transformsHaveSameLengthTypesAndOrder(currentStyle["transform"].ops,
                                              previousStyle["transform"].ops)
    /\ Get(output, "transform") = props["transform"]
    /\ animatedValue # 0
    /\ cleanupOf = animatedValue
    /\ animations[animatedValue].started

\* [{rotate: "0deg"}] was replaced by [{rotate: "90deg"}, {scale: 2}]
C8_Witness ==
  /\ pc = "idle"
  /\ LengthChange
  /\ previousStyle["transform"].ops = <<Rotate0>>
  /\ currentStyle["transform"].ops = <<Rotate90, Scale2>>

\* cubic-bezier(a,b,c,d) with four numbers
WellFormedBezier(toks) ==
  /\ Len(toks) >= 3
  /\ toks[1] = "cubic-bezier" /\ toks[2] = "(" /\ toks[Len(toks)] = ")"
  /\ LET pieces == SplitOn(SubSeq(toks, 3, Len(toks) - 1), ",")
     IN /\ Len(pieces) = 4
        /\ \A i \in 1..4 :
             Len(Trim(pieces[i])) = 1 /\ Trim(pieces[i])[1] \in NumericTokens
\* one of the five forms of transitionTimingFunction
Recognised(tf) ==
  \/ tf.string \in {"ease", "ease-in", "ease-out", "ease-in-out"}
  \/ WellFormedBezier(Tokens(tf.string))

\* C9 (as claimed): with any other timing-function string the trigger effect
\* starts the run with the linear curve and raises nothing.
C9_UnrecognisedIsLinear ==
  [][(/\ pc = "effect" /\ effectDeps # animatedValue
      /\ isString(transitionMetadataRef.timingFunction)
      /\ ~Recognised(transitionMetadataRef.timingFunction))
     => (/\ pc' = "idle" /\ error' = "none"
         /\ animations'[animatedValue].started
         /\ animations'[animatedValue].config.easing = Curve("linear"))]_vars

\* the last detected change turned the scalar k from a number into a string or
\* from a string into a number
KindChange(k) ==
  /\ previousStyle # Undefined
  /\ {TypeOf(Get(previousStyle, k)), TypeOf(Get(currentStyle, k))}
       = {"number", "string"}
  /\ k \in TransitionKeys(props)
  /\ StrictEq(props[k], Get(currentStyle, k))

\* C10 (as claimed): when a transitioning scalar changes kind the Differ
\* reports a change and the output for it is the new value as a literal.
C10_KindChangeVerbatim ==
  \A k \in {"opacity", "width"} :
    (pc = "idle" /\ KindChange(k)) =>
      /\ transitionStyleHasChanged(TransitionStyleOf(currentStyle), previousStyle)
      /\ Get(output, k) = props[k]

\* the property names a transitionProperty text lists
NamesIn(text) ==
  CASE text = "opacity, width" -> {"opacity", "width"}
    [] text = "opacity, transform" -> {"opacity", "transform"}
    [] text = "" -> {""}
    [] OTHER -> {text}
\* the properties a raw transitionProperty resolves to
PropertiesOf(tp) ==
  IF tp = Str("all") THEN {"opacity", "transform"}
  ELSE IF isString(tp) THEN NamesIn(tp.string)
  ELSE {}
\* a number, a string or a list
Transitionable(v) == TypeOf(v) \in {"number", "string"} \/ IsArray(v)

\* C11: for every raw style the first render and its effects raise nothing and
\* resolve delay to transitionDelay if a number else 0, duration to
\* transitionDuration if a number else 16, timingFunction to
\* transitionTimingFunction if a string else null, and the transitionable subset
\* to exactly the listed properties ("all": opacity and transform; another
\* string: its trimmed names; anything else: none) whose value is a number, a
\* string or a list, each with the value of the style.
C11_ConfigResolved ==
  pc # "unmounted" =>
    LET d == Get(props, "transitionDelay")
        u == Get(props, "transitionDuration")
        tf == Get(props, "transitionTimingFunction")
        tp == Get(props, "transitionProperty")
    IN /\ error = "none"
       /\ transitionMetadataRef.delay = IF TypeOf(d) = "number" THEN d ELSE Num(0)
       /\ transitionMetadataRef.duration =
            IF TypeOf(u) = "number" THEN u ELSE Num(16)
       /\ transitionMetadataRef.timingFunction =
            IF TypeOf(tf) = "string" THEN tf ELSE Null
       /\ TransitionKeys(props) =
            {p \in PropertiesOf(tp) : Transitionable(Get(props, p))}
       /\ \A p \in TransitionKeys(props) : TransitionStyleOf(props)[p] = props[p]

\* the metadata was synchronised for a style with a text for a delay, a number
\* for a timing function, a list of two names and a null opacity
C11_Witness ==
  /\ pc = "idle"
  /\ Get(props, "transitionDelay") = Str("100ms")
  /\ Get(props, "transitionDuration") = Num(300)
  /\ Get(props, "transitionTimingFunction") = Num(1)
  /\ Get(props, "transitionProperty") = Str("opacity, width")
  /\ Get(props, "opacity") = Null
  /\ TransitionKeys(props) = {"width"}

\* a numeral: a number other than NaN
Numeral(v) == TypeOf(v) = "number" /\ ~IsNaN(v)
\* k is a transitioning property of both styles, a numeral in both, and the
\* numerals differ
NumeralChanged(k, old, new) ==
  /\ k \in TransitionKeys(old) /\ k \in TransitionKeys(new)
  /\ Numeral(old[k]) /\ Numeral(new[k])
  /\ old[k].number # new[k].number
\* the timing function of the style is one getEasingFunction returns a curve for
EasingResolves(style) ==
  ~Throws(getEasingFunction(MetadataOf(style).timingFunction))

\* the update step of C12: the changed numeral is detected, one Animated.Value
\* is made for it and the start value is the old numeral
C12_UpdateStep ==
  \A k \in {"opacity", "width"} :
    (pc = "idle" /\ updates' = updates + 1 /\ NumeralChanged(k, props, props'))
      => /\ pc' = "rerender"
         /\ animations' = Append(animations, NoAnimation)
         /\ animatedValue' = Len(animations')
         /\ StartValue(previousStyle', k, props'[k]) = props[k]
\* the render after the state setters makes no further Animated.Value
C12_ReRenderStep ==
  (pc = "rerender" /\ pc' = "commit") =>
    (animations' = animations /\ animatedValue' = animatedValue)
\* the cycle of the update has ended: the one new animation runs with the
\* metadata of that update and the output is bound to it
C12_Settled ==
  \A k \in {"opacity", "width"} :
    (/\ pc = "idle" /\ currentStyle = props /\ previousStyle # Undefined
     /\ NumeralChanged(k, previousStyle, props) /\ EasingResolves(props))
      => LET m == MetadataOf(props)
             a == animations[animatedValue]
         IN /\ animatedValue = Len(animations)
            /\ Unstopped = {animatedValue}
            /\ a.delay = m.delay
            /\ a.config.duration = m.duration
            /\ a.config.easing = getEasingFunction(m.timingFunction)
            /\ a.config.useNativeDriver = m.shouldUseNativeDriver
            /\ output[k] = Interpolate(previousStyle[k], props[k])

\* C12: on an update that changes a transitioning numeral (and whose timing
\* function resolves to a curve) exactly one Animated.Value is made and its
\* animation started with the delay, duration, easing and native-driver flag
\* resolved from that update, and the property's output is bound to it with the
\* output range [old value, new value].
C12_RunOfTheUpdate ==
  /\ [][C12_UpdateStep /\ C12_ReRenderStep]_vars
  /\ []C12_Settled

\* opacity 0 -> 10 with transitionProperty "opacity", transitionDuration 300:
\* duration 300, delay 0, linear, native driver, output range [0, 10]
C12_Witness ==
  /\ pc = "idle" /\ currentStyle = props /\ previousStyle # Undefined
  /\ NumeralChanged("opacity", previousStyle, props)
  /\ props = [opacity |-> Num(10), width |-> Num(5),
              transitionProperty |-> Str("opacity"), transitionDuration |-> Num(300)]
  /\ animations[animatedValue] =
       Started(Num(0), [toValue |-> 1, duration |-> Num(300),
                        easing |-> Curve("linear"), useNativeDriver |-> TRUE])
  /\ output["opacity"] = Interpolate(Num(0), Num(10))

\* the kind of a value of a snapshot: a number, a string, a transform list, or
\* none
KindOf(v) == IF IsArray(v) THEN "list" ELSE TypeOf(v)
\* the rule of the Differ for two defined snapshots, as claimed
DiffersAsClaimed(next, prev) ==
  \E k \in DOMAIN next :
    LET n == next[k]
        q == Get(prev, k)
    IN \/ KindOf(q) # KindOf(n)
       \/ /\ KindOf(q) = "list" /\ KindOf(n) = "list"
          /\ ~transformListsAreEqual(q.ops, n.ops)
       \/ /\ KindOf(q) \in {"number", "string"} /\ KindOf(n) = KindOf(q)
          /\ ~StrictEq(q, n)

\* C13 (as claimed): an update whose transitionable subset is defined is a
\* detected change if and only if some key of the subset differs from
\* currentStyle in kind, as a transform list that transformListsAreEqual
\* reports unequal, or as a scalar that is not literally equal; lists that
\* transformListsAreEqual reports equal are no change.
C13_DifferRule ==
  [][(/\ pc = "idle" /\ updates' = updates + 1
      /\ TransitionStyleOf(props') # Undefined)
     => ((pc' = "rerender")
           <=> DiffersAsClaimed(TransitionStyleOf(props'), currentStyle))]_vars

\* the entries of a and b carry the same kinds with literally equal magnitudes
SameEntries(a, b) ==
  /\ Len(a) = Len(b)
  /\ \A i \in 1..Len(a) : \A k \in KindSet :
       /\ NotNull(Get(a[i], k)) <=> NotNull(Get(b[i], k))
       /\ NotNull(Get(a[i], k)) => StrictEq(Get(a[i], k), Get(b[i], k))

\* C14 (as claimed): when the Differ compares the transform list of
\* currentStyle with that of an update, transformListsAreEqual is true only if
\* the lists have the same length and at every index the same kinds with
\* literally equal magnitudes; a kind in one entry only, whichever, makes them
\* unequal.
C14_EqualOnlyIfSameKinds ==
  [][(/\ pc = "idle" /\ updates' = updates + 1
      /\ "transform" \in TransitionKeys(props')
      /\ IsArray(props'["transform"])
      /\ IsArray(Get(currentStyle, "transform"))
      /\ transformListsAreEqual(currentStyle["transform"].ops,
                                props'["transform"].ops))
     => SameEntries(currentStyle["transform"].ops, props'["transform"].ops)]_vars

\* the delay, duration and timing function a style resolves to
Directives(style) ==
  <<MetadataOf(style).delay, MetadataOf(style).duration,
    MetadataOf(style).timingFunction>>
\* new differs from old in its transition metadata and in nothing else
MetadataOnly(old, new) ==
  /\ Directives(old) # Directives(new)
  /\ DOMAIN old \ ReservedKeys = DOMAIN new \ ReservedKeys
  /\ \A k \in DOMAIN old \ ReservedKeys : StrictEq(old[k], new[k])
  /\ Get(old, "transitionProperty") = Get(new, "transitionProperty")

\* the render of a metadata-only update makes no Animated.Value
C15_RenderStep ==
  (pc = "idle" /\ updates' = updates + 1 /\ MetadataOnly(props, props'))
    => /\ pc' = "commit"
       /\ animatedValue' = animatedValue
       /\ animations' = animations /\ cleanupOf' = cleanupOf
\* the commit of a render that made no Animated.Value neither stops nor starts
\* an animation
C15_CommitSteps ==
  (pc \in {"commit", "sync", "effect"} /\ effectDeps = animatedValue)
    => (animations' = animations /\ cleanupOf' = cleanupOf)
\* what an animation was started with is never changed
C15_ConfigFrozen ==
  \A a \in AnimationIds :
    animations[a].started
      => /\ animations'[a].started
         /\ animations'[a].delay = animations[a].delay
         /\ animations'[a].config = animations[a].config

\* C15: an update that changes only transitionDelay, transitionDuration or
\* transitionTimingFunction, every other value of the style staying literally
\* the same, neither stops the running animation nor makes or starts another,
\* and a started animation keeps the delay, duration, easing and native-driver
\* flag it was started with.
C15_MetadataOnlyUpdate ==
  [][C15_RenderStep /\ C15_CommitSteps /\ C15_ConfigFrozen]_vars

\* after a metadata-only update the ref holds the new directives while the
\* running animation keeps the ones it was started with
C15_Witness ==
  /\ pc = "idle" /\ updates > 0
  /\ cleanupOf # 0 /\ cleanupOf = animatedValue
  /\ animations[cleanupOf].started /\ animations[cleanupOf].stopCalls = 0
  /\ transitionMetadataRef = MetadataOf(props)
  /\ MetadataOnly(currentStyle, props)
  /\ animations[cleanupOf].delay = MetadataOf(currentStyle).delay
  /\ animations[cleanupOf].config.duration = MetadataOf(currentStyle).duration
  /\ animations[cleanupOf].config.duration # transitionMetadataRef.duration

\* a render of an update that saw no change has returned
NoChangeUpdate == pc = "idle" /\ updates' = updates + 1 /\ pc' = "commit"
\* no run is active: no Animated.Value was made yet, or the clock of the
\* running animation has reached progress 1
NoRunActive ==
  \/ animatedValue = 0
  \/ cleanupOf # 0 /\ cleanupOf = animatedValue /\ Completed(cleanupOf)

FirstKind(entry) ==
  Kinds[CHOOSE j \in 1..Len(Kinds) :
          /\ NotNull(Get(entry, Kinds[j]))
          /\ \A i \in 1..(j - 1) : ~NotNull(Get(entry, Kinds[i]))]
HasMatrix(list) == \E i \in 1..Len(list) : NotNull(Get(list[i], "matrix"))
\* the kinds with a numeric magnitude
NumericKinds == {"perspective", "scale", "scaleX", "scaleY", "scaleZ"}
\* the start of the output range as claimed: the magnitude of the from entry,
\* as a number for the numeric kinds
FromMagnitude(kind, entry) ==
  IF kind \in NumericKinds THEN ToNumber(entry[kind]) ELSE entry[kind]
\* The render for props has returned after a detected change of the transform
\* list from previousStyle's to props' list, the two compatible and without a
\* matrix entry.
CompatibleChange ==
  /\ Returned /\ animatedValue # 0 /\ previousStyle # Undefined
  /\ "transform" \in TransitionKeys(props)
  /\ IsArray(props["transform"]) /\ IsArray(Get(previousStyle, "transform"))
  /\ ~StrictEq(previousStyle["transform"], props["transform"])
  /\ transformsHaveSameLengthTypesAndOrder(props["transform"].ops,
                                           previousStyle["transform"].ops)
  /\ ~HasMatrix(props["transform"].ops)
  /\ ~HasMatrix(previousStyle["transform"].ops)

\* C17 (as claimed): after a compatible change of the transform list the
\* output list has the length of the target list and at each index exactly one
\* field, the first kind of the target entry in the fixed order, bound to the
\* clock with the output range [from magnitude, to magnitude].
C17_Decomposition ==
  CompatibleChange =>
    LET from == previousStyle["transform"].ops
        to == props["transform"].ops
        out == Get(output, "transform")
    IN /\ IsArray(out)
       /\ Len(out.ops) = Len(to)
       /\ \A i \in 1..Len(to) :
            LET kind == FirstKind(to[i])
            IN /\ DOMAIN out.ops[i] = {kind}
               /\ out.ops[i][kind] =
                    Interpolate(FromMagnitude(kind, from[i]), to[i][kind])

\* C18 (as claimed): when an update is a detected change, the start value of
\* every transitioning property is the value the property had in the style of
\* the update before it, whatever the earlier updates were.
C18_FromIsPrecedingStyle ==
  [][(pc = "idle" /\ updates' = updates + 1 /\ pc' = "rerender")
     => \A k \in TransitionKeys(props') :
          (Transitionable(Get(props, k)) /\ ~IsNaN(props[k]))
            => StartValue(previousStyle', k, props'[k]) = props[k]]_vars

\* C19 (as claimed): in the entries of an animated transform list only the
\* numeric kinds (perspective, scale, scaleX, scaleY, scaleZ) have the start of
\* their output range coerced to a number; for the angle kinds and for
\* translateX and translateY the range is the from and the to magnitude as
\* they are.
C19_OnlyNumericKindsCoerced ==
  (CompatibleChange /\ IsArray(Get(output, "transform"))
     /\ Len(output["transform"].ops) = Len(props["transform"].ops))
    => \A i \in 1..Len(output["transform"].ops) :
         \A kind \in DOMAIN output["transform"].ops[i] :
           LET range == output["transform"].ops[i][kind].outputRange
               from == previousStyle["transform"].ops[i][kind]
           IN /\ range[2] = props["transform"].ops[i][kind]
              /\ kind \in NumericKinds => range[1] = ToNumber(from)
              /\ kind \notin NumericKinds => range[1] = from

\* C20 (as claimed): in the first cycle, for every initial style, no change is
\* detected, no Animated.Value is made and no animation started, and every
\* transitioning property is output as its literal initial value; an
\* Animated.Value exists only after an update.
C20_QuietMount ==
  updates = 0 =>
    /\ pc \notin {"rerender", "crashed"}
    /\ animatedValue = 0 /\ animations = <<>> /\ cleanupOf = 0
    /\ Returned => \A k \in TransitionKeys(props) : Get(output, k) = props[k]

====
